---- MODULE Spec2Model ----
(***************************************************************************)
(* A model of bevy_double_res::DoubleBuffer<T> (src/src/double_buffer.rs)  *)
(* and of its constructors (src/src/into_double_buffer.rs).                *)
(*                                                                         *)
(* T is instantiated as a pair of small integers, as in the doctests       *)
(* ((10, 20), (20, 10), ...).  The array `buffer: [T; 2]` is the tuple     *)
(* <<slot 0, slot 1>>; position p of the array is component p + 1.         *)
(* Every public method is one action.  A method that hands out a mutable   *)
(* reference is modelled together with the write the caller makes through  *)
(* that reference (writing back the old value is "no write").              *)
(***************************************************************************)
EXTENDS Integers, Sequences, FiniteSets, TLC

\* ---------------------------------------------------------------- bounds
\* components of T range over 0..MaxVal
MaxVal == 1
\* set_index / from_buffer are tried with every index in 0..MaxIndex
MaxIndex == 2
\* an update-cycle run makes at most MaxCycles apply + swap cycles
MaxCycles == 3
\* the example app runs its update system at most MaxUpdates times
MaxUpdates == 8

\* ------------------------------------------------------ program constants
\* `index: u8`: the selector is an 8-bit unsigned integer
U8Bits == 8
\* `buffer: [T; 2]`: the array has two positions
BufLen == 2

U8Mod == 2 ^ U8Bits

VARIABLES
    buffer,           \* self.buffer : [T; 2]
    index,            \* self.index  : u8
    panic,            \* "none", or the message of the panic that ended the last call
    last,             \* name of the last method called (or of the constructor)
    args,             \* its arguments
    ret,              \* the values it returned (what the returned references point at)
    views,            \* the array positions of the references it returned
    pre,              \* (buffer, index) before the last call
    last2,            \* the call before the last one: "swap", "apply", "set_index" or "other"
    trace,            \* apply: per statement of the closure, what it read and the array after it
    hist,             \* update cycles: per generation, current() and the closure that made it
    host              \* example app: the scheduler's position and the colors on display

vars == <<buffer, index, panic, last, args, ret, views, pre, last2, trace, hist, host>>

\* ------------------------------------------------------------ the type T
T == (0 .. MaxVal) \X (0 .. MaxVal)

\* <T as Default>::default() for a tuple of integers
T_default == <<0, 0>>

\* <T as Clone>::clone, derived: a field-by-field copy (two fields for the
\* tuples of the doctests, three for MyColors of the example)
clone(v) == IF Len(v) = 3 THEN <<v[1], v[2], v[3]>> ELSE <<v[1], v[2]>>

\* <&T as ToOwned>::to_owned: clones the referent
to_owned(v) == clone(v)

\* ---------------------------------------------------- array access [T; 2]
\* bounds check of `buffer[pos]`
InBounds(pos) == pos >= 0 /\ pos < BufLen

\* `buffer[pos]` for a position that passed the bounds check
At(buf, pos) == buf[pos + 1]

\* `buffer[pos] = v`
Write(buf, pos, v) == [buf EXCEPT ![pos + 1] = v]

\* ------------------------------------------------------------ constructors
\* bug: the index argument is dropped and the selector starts at 0
from_buffer_index_ignored(buf, idx) == [buffer |-> buf, index |-> 0]

\* DoubleBuffer::from_buffer
from_buffer(buf, idx) == [buffer |-> buf, index |-> idx]

\* bug: the fresh buffer starts with the selector on slot 1
new_index_one(value) == [buffer |-> <<clone(value), value>>, index |-> 1]

\* DoubleBuffer::new
new(value) == from_buffer(<<clone(value), value>>, 0)

\* <DoubleBuffer<T> as From<T>>::from
from(value) == new(value)

\* <DoubleBuffer<T> as Default>::default
default == new(T_default)

\* <&T as IntoDoubleBuffer>::into_double_buf
into_double_buf(self) == new(to_owned(self))

\* ------------------------------------------------------- index arithmetic
\* bug: the selector is reduced modulo 2 instead of being used as it is
current_pos_masked(idx) == idx % 2

\* `self.index as usize` in current / current_mut
current_pos(idx) == idx

\* bug: next computes 2 - index instead of 1 - index
next_pos_off_by_one(idx) == 2 - idx

\* bug: next uses the selector itself, so next and current are the same slot
next_pos_same(idx) == idx

\* `1 - self.index as usize` in next / next_mut.  The subtraction is in usize:
\* for idx > 1 a debug build panics on the overflow and a release build wraps
\* to 2^64 + (1 - idx); the wrapped position is written here as the negative
\* number 1 - idx, which fails the bounds check like the wrapped one does.
next_pos(idx) == 1 - idx

\* does `1 - self.index as usize` overflow
next_overflows(idx) == 1 - idx < 0

\* bug: swap advances the selector instead of toggling it
swap_index_incr(idx) == (idx + 1) % U8Mod

\* bug: swap computes index - 1 instead of 1 - index
swap_index_neg(idx) == (idx - 1) % U8Mod

\* `1 - self.index` in swap, in u8: wraps modulo 2^8 when overflow is unchecked
swap_index(idx) == (1 - idx) % U8Mod

\* does `1 - self.index` overflow in u8
swap_overflows(idx) == 1 - idx < 0

\* the slot current() / current_mut() refer to: `self.buffer[self.index as usize]`
current(db) == At(db.buffer, current_pos(db.index))

\* the slot next() / next_mut() refer to: `self.buffer[1 - self.index as usize]`
next(db) == At(db.buffer, next_pos(db.index))

\* bug: split returns (second, first)
split_pos_reversed == <<1, 0>>

\* split / split_mut: `split_at(1)`, then first[0] and second[0]
split_pos == <<0, 1>>

\* bug: the second branch of split_ordered hands out the second slot twice
split_ordered_pos_aliased(idx) == IF idx = 0 THEN <<0, 1>> ELSE <<1, 1>>

\* bug: split_ordered tests for index 1 and treats every other index as 0
split_ordered_pos_one_only(idx) == IF idx = 1 THEN <<1, 0>> ELSE <<0, 1>>

\* bug: split_ordered ignores the selector and always returns (slot 0, slot 1)
split_ordered_pos_unordered(idx) == <<0, 1>>

\* split_ordered: the positions of (current, next)
split_ordered_pos(idx) ==
    IF idx = 0 THEN <<split_pos[1], split_pos[2]>>
               ELSE <<split_pos[2], split_pos[1]>>

\* ------------------------------------------------ closures given to apply
\* a closure is <<kind, w>>; w is the value a "const" closure writes
FKinds == {"exchange", "copy", "keep", "first"}

\* one statement of a closure body: `next.dst = current.src`, `*next =
\* current.clone()` or `*next = w` (fields are numbered from 1)
Field(dst, src) == [op |-> "field", dst |-> dst, src |-> src, w |-> <<>>]
CopyAll == [op |-> "copy", dst |-> 0, src |-> 0, w |-> <<>>]
Const(w) == [op |-> "const", dst |-> 0, src |-> 0, w |-> w]

\* the statements of a closure's body, in program order
Stmts(f) ==
    CASE f[1] = "exchange" -> <<Field(1, 2), Field(2, 1)>>
      [] f[1] = "copy"     -> <<CopyAll>>
      [] f[1] = "keep"     -> <<>>
      [] f[1] = "first"    -> <<Field(1, 2)>>
      [] f[1] = "const"    -> <<Const(f[2])>>
      [] f[1] = "rotate"   -> <<Field(1, 2), Field(2, 3), Field(3, 1)>>

\* one statement run on the array through the two references the closure
\* holds: p[1] is the position behind `current`, p[2] the one behind `next`
Step(buf, p, st) ==
    LET cur == At(buf, p[1])
        nxt == At(buf, p[2])
    IN CASE st.op = "field" -> Write(buf, p[2], [nxt EXCEPT ![st.dst] = cur[st.src]])
         [] st.op = "copy"  -> Write(buf, p[2], clone(cur))
         [] st.op = "const" -> Write(buf, p[2], st.w)

\* the closure body run statement by statement: for each statement, the
\* value `current` referred to when it ran and the array it left
RECURSIVE Run(_, _, _)
Run(buf, p, stmts) ==
    IF stmts = <<>> THEN <<>>
    ELSE LET b == Step(buf, p, Head(stmts))
         IN <<[read |-> At(buf, p[1]), buf |-> b]>> \o Run(b, p, Tail(stmts))

\* the array when the closure returns
Final(buf, tr) == IF tr = <<>> THEN buf ELSE tr[Len(tr)].buf
F == {<<k, T_default>> : k \in FKinds} \cup {<<"const", w>> : w \in T}

\* the value the closure leaves in *next, given *current and the old *next
FWrite(f, cur, nxt) ==
    CASE f[1] = "exchange" -> <<cur[2], cur[1]>>      \* next.0 = current.1; next.1 = current.0
      [] f[1] = "copy"     -> clone(cur)              \* *next = current.clone()
      [] f[1] = "keep"     -> nxt                     \* no write
      [] f[1] = "first"    -> <<cur[2], nxt[2]>>      \* next.0 = current.1
      [] f[1] = "const"    -> f[2]                    \* *next = w

\* the closure's result: what it saw through its two arguments on entry
FRes(f, cur, nxt) == <<cur, nxt>>

\* ------------------------------------------------------ history bookkeeping
\* the struct DoubleBuffer { buffer, index } as it is now
Self == [buffer |-> buffer, index |-> index]

\* panic messages
NoPanic == "none"
OutOfBounds == "index out of bounds"
SubOverflow == "attempt to subtract with overflow"

panicked == panic # NoPanic

\* the calls the two-call history tells apart: those of the update cycle,
\* and set_index, the call that can put the selector outside {0,1}
TrackedCalls == {"swap", "apply", "set_index"}

History(op, a) ==
    /\ last' = op
    /\ args' = a
    /\ pre' = Self
    /\ last2' = IF last \in TrackedCalls /\ ~panicked THEN last ELSE "other"

\* a call made outside the tracked update cycle and outside the example app:
\* a tracked run of apply + swap cycles, if there was one, is over
Record(op, a) ==
    /\ History(op, a)
    /\ hist' = <<>>
    /\ UNCHANGED host

\* The build profile decides whether an arithmetic overflow panics (debug,
\* overflow-checks on) or wraps (release): both outcomes are considered.
OverflowChecks == BOOLEAN

\* a call that returns normally, having run a closure with trace tr
ReturnTraced(r, v, tr) ==
    /\ ret' = r
    /\ views' = v
    /\ trace' = tr
    /\ panic' = NoPanic

\* a call that returns normally
Return(r, v) == ReturnTraced(r, v, <<>>)

\* a call that panics: nothing is returned, self is left as it was
Panic(msg) ==
    /\ ret' = <<>>
    /\ views' = <<>>
    /\ trace' = <<>>
    /\ panic' = msg
    /\ UNCHANGED <<buffer, index>>

\* ---------------------------------------------------------------- methods
\* pub fn buffer(&self) -> &[T; 2]
Buffer ==
    /\ ~panicked
    /\ Record("buffer", <<>>)
    /\ Return(<<buffer[1], buffer[2]>>, <<0, 1>>)
    /\ UNCHANGED <<buffer, index>>

\* pub fn buffer_mut(&mut self) -> &mut [T; 2], and the caller's `[i] = v`
BufferMut(i, v) ==
    /\ ~panicked
    /\ Record("buffer_mut", <<i, v>>)
    /\ Return(<<buffer[1], buffer[2]>>, <<0, 1>>)
    /\ buffer' = Write(buffer, i, v)
    /\ UNCHANGED index

\* pub fn index(&self) -> u8
Index ==
    /\ ~panicked
    /\ Record("index", <<>>)
    /\ Return(<<index>>, <<>>)
    /\ UNCHANGED <<buffer, index>>

\* pub fn set_index(&mut self, value: u8)
SetIndex(value) ==
    /\ ~panicked
    /\ Record("set_index", <<value>>)
    /\ Return(<<>>, <<>>)
    /\ index' = value
    /\ UNCHANGED buffer

\* the body of current: `&self.buffer[self.index as usize]`
CurrentBody ==
    IF InBounds(current_pos(index))
    THEN /\ Return(<<current(Self)>>, <<current_pos(index)>>)
         /\ UNCHANGED <<buffer, index>>
    ELSE Panic(OutOfBounds)

\* pub fn current(&self) -> &T
Current ==
    /\ ~panicked
    /\ Record("current", <<>>)
    /\ CurrentBody

\* pub fn current_mut(&mut self) -> &mut T, and the caller's write of v
CurrentMut(v) ==
    /\ ~panicked
    /\ Record("current_mut", <<v>>)
    /\ IF InBounds(current_pos(index))
       THEN /\ Return(<<current(Self)>>, <<current_pos(index)>>)
            /\ buffer' = Write(buffer, current_pos(index), v)
            /\ UNCHANGED index
       ELSE Panic(OutOfBounds)

\* pub fn next(&self) -> &T
Next_ ==
    /\ ~panicked
    /\ Record("next", <<>>)
    /\ \E checks \in OverflowChecks :
        IF checks /\ next_overflows(index) THEN Panic(SubOverflow)
        ELSE IF ~InBounds(next_pos(index)) THEN Panic(OutOfBounds)
        ELSE /\ Return(<<next(Self)>>, <<next_pos(index)>>)
             /\ UNCHANGED <<buffer, index>>

\* pub fn next_mut(&mut self) -> &mut T, and the caller's write of v
NextMut(v) ==
    /\ ~panicked
    /\ Record("next_mut", <<v>>)
    /\ \E checks \in OverflowChecks :
        IF checks /\ next_overflows(index) THEN Panic(SubOverflow)
        ELSE IF ~InBounds(next_pos(index)) THEN Panic(OutOfBounds)
        ELSE /\ Return(<<next(Self)>>, <<next_pos(index)>>)
             /\ buffer' = Write(buffer, next_pos(index), v)
             /\ UNCHANGED index

\* bug: swap toggles the selector and also exchanges the two copies
SwapCopies ==
    /\ ~panicked
    /\ Record("swap", <<>>)
    /\ Return(<<>>, <<>>)
    /\ index' = swap_index(index)
    /\ buffer' = <<buffer[2], buffer[1]>>

\* bug: swap also refreshes the new next slot with a copy of the new current
SwapBodyCopying ==
    /\ Return(<<>>, <<>>)
    /\ index' = swap_index(index)
    /\ buffer' = <<At(buffer, swap_index(index)), At(buffer, swap_index(index))>>

\* the body of swap: `self.index = 1 - self.index;`
SwapBody ==
    \E checks \in OverflowChecks :
        IF checks /\ swap_overflows(index)
        THEN Panic(SubOverflow)
        ELSE /\ Return(<<>>, <<>>)
             /\ index' = swap_index(index)
             /\ UNCHANGED buffer

\* pub fn swap(&mut self)
Swap ==
    /\ ~panicked
    /\ Record("swap", <<>>)
    /\ SwapBody

\* pub fn split(&self) -> (&T, &T)
Split ==
    /\ ~panicked
    /\ Record("split", <<>>)
    /\ Return(<<At(buffer, split_pos[1]), At(buffer, split_pos[2])>>, split_pos)
    /\ UNCHANGED <<buffer, index>>

\* pub fn split_mut(&mut self) -> (&mut T, &mut T), and the caller's writes
\* of a through the first reference and of b through the second
SplitMut(a, b) ==
    /\ ~panicked
    /\ Record("split_mut", <<a, b>>)
    /\ Return(<<At(buffer, split_pos[1]), At(buffer, split_pos[2])>>, split_pos)
    /\ buffer' = Write(Write(buffer, split_pos[1], a), split_pos[2], b)
    /\ UNCHANGED index

\* pub fn split_ordered(&mut self) -> (&T, &mut T), and the caller's write of
\* w through the second (mutable) reference
SplitOrdered(w) ==
    /\ ~panicked
    /\ Record("split_ordered", <<w>>)
    /\ LET p == split_ordered_pos(index) IN
        /\ Return(<<At(buffer, p[1]), At(buffer, p[2])>>, p)
        /\ buffer' = Write(buffer, p[2], w)
    /\ UNCHANGED index

\* bug: apply promotes next to current itself after running the closure
ApplyThenSwap(f) ==
    /\ ~panicked
    /\ Record("apply", <<f>>)
    /\ LET p == split_ordered_pos(index)
           prev == At(buffer, p[1])
           nxt == At(buffer, p[2])
       IN
        /\ Return(<<FRes(f, prev, nxt)>>, p)
        /\ buffer' = Write(buffer, p[2], FWrite(f, prev, nxt))
    /\ index' = swap_index(index)

\* bug: apply passes its two references to the closure in the wrong order
ApplyBodyReversed(f) ==
    LET p == split_ordered_pos(index)
        q == <<p[2], p[1]>>
        tr == Run(buffer, q, Stmts(f))
    IN
        /\ ReturnTraced(<<FRes(f, At(buffer, q[1]), At(buffer, q[2]))>>, p, tr)
        /\ buffer' = Final(buffer, tr)
        /\ UNCHANGED index

\* bug: apply first refreshes next with a copy of current, then runs the closure
ApplyBodyCopyFirst(f) ==
    LET p == split_ordered_pos(index)
        fresh == Write(buffer, p[2], clone(At(buffer, p[1])))
        tr == Run(fresh, p, Stmts(f))
    IN
        /\ ReturnTraced(<<FRes(f, At(buffer, p[1]), At(buffer, p[2]))>>, p, tr)
        /\ buffer' = Final(fresh, tr)
        /\ UNCHANGED index

\* the body of apply: `let (prev, next) = self.split_ordered(); f(prev, next)`
ApplyBody(f) ==
    LET p == split_ordered_pos(index)
        tr == Run(buffer, p, Stmts(f))
    IN
        /\ ReturnTraced(<<FRes(f, At(buffer, p[1]), At(buffer, p[2]))>>, p, tr)
        /\ buffer' = Final(buffer, tr)
        /\ UNCHANGED index

\* pub fn apply<Res>(&mut self, f: impl FnOnce(&T, &mut T) -> Res) -> Res
Apply(f) ==
    /\ ~panicked
    /\ Record("apply", <<f>>)
    /\ ApplyBody(f)

\* ------------------------------------------------------------ construction
ValidIndex == {0, 1}
AnyIndex == 0 .. MaxIndex

\* the example app's scheduler is not running
NoHost == [phase |-> "none", upc |-> 0, dpc |-> 0, shown |-> <<>>]

\* the struct right after a constructor returned it
Built(db, op, a) ==
    /\ buffer = db.buffer
    /\ index = db.index
    /\ last = op
    /\ args = a
    /\ ret = <<>>
    /\ views = <<>>
    /\ trace = <<>>
    /\ panic = NoPanic
    /\ pre = db
    /\ last2 = "other"

Constructed(db, op, a) ==
    /\ Built(db, op, a)
    /\ hist = <<>>
    /\ host = NoHost

InitWith(Indexes) ==
    \/ \E v \in T : Constructed(new(v), "new", <<v>>)
    \/ \E v \in T : Constructed(from(v), "from", <<v>>)
    \/ Constructed(default, "default", <<>>)
    \/ \E v \in T : Constructed(into_double_buf(v), "into_double_buf", <<v>>)
    \/ \E a \in T, b \in T, i \in Indexes :
           Constructed(from_buffer(<<a, b>>, i), "from_buffer", <<a, b, i>>)

Calls(Indexes) ==
    \/ Buffer
    \/ \E i \in 0 .. 1, v \in T : BufferMut(i, v)
    \/ Index
    \/ \E value \in Indexes : SetIndex(value)
    \/ Current
    \/ \E v \in T : CurrentMut(v)
    \/ Next_
    \/ \E v \in T : NextMut(v)
    \/ Swap
    \/ Split
    \/ \E a \in T, b \in T : SplitMut(a, b)
    \/ \E w \in T : SplitOrdered(w)
    \/ \E f \in F : Apply(f)

\* ------------------------------------------------------- the update cycle
\* Runs of the documented update pattern: a buffer made by new(v), then
\* apply(f); swap(); repeated.  hist has one entry per generation: the value
\* current() had in it and the closure whose apply produced that value.
NoClosure == <<"none", T_default>>
Gen(v, f) == [cur |-> v, f |-> f]

\* seeds: every value of T, and the seed (10, 20) of the doctest
CycleSeeds == T \cup {<<10, 20>>}

\* closures used in the cycle: the four bodies and `*next = T::default()`
CycleF == {<<k, T_default>> : k \in FKinds} \cup {<<"const", T_default>>}

\* number of completed apply + swap cycles
Cycles == Len(hist) - 1

InitCycle ==
    \E v \in CycleSeeds :
        /\ Built(new(v), "new", <<v>>)
        /\ hist = <<Gen(current(new(v)), NoClosure)>>
        /\ host = NoHost

\* tuple.apply(f), first half of a cycle
CycleApply(f) ==
    /\ ~panicked
    /\ last \in {"new", "swap"}
    /\ Cycles < MaxCycles
    /\ History("apply", <<f>>)
    /\ ApplyBody(f)
    /\ UNCHANGED <<hist, host>>

\* tuple.swap(), second half of a cycle: a new generation begins
CycleSwap ==
    /\ ~panicked
    /\ last = "apply"
    /\ History("swap", <<>>)
    /\ SwapBody
    /\ hist' = Append(hist, Gen(current(Self'), args[1]))
    /\ UNCHANGED host

NextCycle ==
    \/ \E f \in CycleF : CycleApply(f)
    \/ CycleSwap

SpecCycle == InitCycle /\ [][NextCycle]_vars

\* Any use, with the update cycle tracked: a buffer made by a constructor and
\* used through any sequence of calls.  From new(v) the generations of the
\* apply + swap cycle are recorded in hist for as long as the caller keeps to
\* the cycle; any other call ends the tracked run.
InitUse ==
    \/ InitWith(AnyIndex)
    \/ \E v \in T :
           /\ Built(new(v), "new", <<v>>)
           /\ hist = <<Gen(current(new(v)), NoClosure)>>
           /\ host = NoHost

NextUse ==
    \/ Calls(AnyIndex)
    \/ hist # <<>> /\ NextCycle

SpecUse == InitUse /\ [][NextUse]_vars

\* --------------------------------------------------------- the example app
\* examples/simple/main.rs: the resource DoubleBuffer<MyColors>, the system
\* circular_dependent_system (exclusive access, DoubleResMut) and the system
\* display_system (shared access, DoubleRes).  The scheduler never runs the
\* two at once, since their accesses to the resource conflict, and it orders
\* the update system before the display system; the fixed-timestep run
\* criteria lets the update system run any number of times between two
\* runs of the display system.
\* host.phase: which system may run; host.upc: statements of the update
\* system done; host.dpc: statements of the display system done;
\* host.shown: the colors of the three materials.

\* MyColors(Color::RED, Color::BLUE, Color::GREEN)
MyColors0 == <<"RED", "BLUE", "GREEN">>

\* the closure of circular_dependent_system
Rotate == <<"rotate", T_default>>

\* setup: the resource is inserted, the materials are RED, BLUE, GREEN
InitExample ==
    /\ Built(into_double_buf(MyColors0), "into_double_buf", <<MyColors0>>)
    /\ hist = <<Gen(current(into_double_buf(MyColors0)), NoClosure)>>
    /\ host = [phase |-> "update", upc |-> 0, dpc |-> 0,
               shown |-> <<"RED", "BLUE", "GREEN">>]

\* circular_dependent_system, first statement: colors.apply(|current, next| ...)
UpdateApply ==
    /\ ~panicked
    /\ host.phase = "update" /\ host.upc = 0
    /\ Cycles < MaxUpdates
    /\ History("apply", <<Rotate>>)
    /\ ApplyBody(Rotate)
    /\ host' = [host EXCEPT !.upc = 1]
    /\ UNCHANGED hist

\* bug: the update system returns without calling swap
UpdateSwapMissing ==
    /\ ~panicked
    /\ host.phase = "update" /\ host.upc = 1
    /\ History("swap", <<>>)
    /\ Return(<<>>, <<>>)
    /\ UNCHANGED <<buffer, index>>
    /\ hist' = Append(hist, Gen(current(Self), args[1]))
    /\ host' = [host EXCEPT !.upc = 0]

\* circular_dependent_system, second statement: colors.swap(); the run is complete
UpdateSwap ==
    /\ ~panicked
    /\ host.phase = "update" /\ host.upc = 1
    /\ History("swap", <<>>)
    /\ SwapBody
    /\ hist' = Append(hist, Gen(current(Self'), args[1]))
    /\ host' = [host EXCEPT !.upc = 0]

\* the scheduler: no update run is in progress and display_system is started
StartDisplay ==
    /\ ~panicked
    /\ host.phase = "update" /\ host.upc = 0
    /\ host' = [host EXCEPT !.phase = "display", !.dpc = 0]
    /\ UNCHANGED <<buffer, index, panic, last, args, ret, views, pre, last2, trace, hist>>

\* display_system, one of its three statements:
\* `assets.get_mut(..).map(|x| x.color = colors.current().i)`
DisplayRead ==
    /\ ~panicked
    /\ host.phase = "display" /\ host.dpc < 3
    /\ History("current", <<>>)
    /\ CurrentBody
    /\ host' = [host EXCEPT !.dpc = host.dpc + 1,
                            !.shown[host.dpc + 1] = current(Self)[host.dpc + 1]]
    /\ UNCHANGED hist

\* display_system returns; the next frame begins
EndDisplay ==
    /\ ~panicked
    /\ host.phase = "display" /\ host.dpc = 3
    /\ host' = [host EXCEPT !.phase = "update", !.dpc = 0]
    /\ UNCHANGED <<buffer, index, panic, last, args, ret, views, pre, last2, trace, hist>>

NextExample ==
    \/ UpdateApply
    \/ UpdateSwap
    \/ StartDisplay
    \/ DisplayRead
    \/ EndDisplay

SpecExample == InitExample /\ [][NextExample]_vars

\* valid use: the selector is only ever given 0 or 1
Init == InitWith(ValidIndex)
Next == Calls(ValidIndex)
Spec == Init /\ [][Next]_vars

\* any use: the selector may be given any value in 0..MaxIndex
InitAny == InitWith(AnyIndex)
NextAny == Calls(AnyIndex)
SpecAny == InitAny /\ [][NextAny]_vars

\* ------------------------------------------------------------------ claims
Constructors == {"new", "from", "default", "into_double_buf", "from_buffer"}

\* C1: when apply(f) on a buffer with index in {0,1} is followed by swap(),
\* current() is the value f left in the next slot and next() is the value
\* current() had before the apply call.
C1_ApplyThenSwap ==
    [][(/\ last = "apply" /\ ~panicked /\ pre.index \in ValidIndex
        /\ last' = "swap")
       => /\ ~panicked'
          /\ current(Self') = FWrite(args[1], current(pre), next(pre))
          /\ current(Self') = next(Self)
          /\ next(Self') = current(pre)]_vars

\* an apply that changed the next slot has been followed by a swap
C1_Witness ==
    /\ last = "swap" /\ last2 = "apply" /\ ~panicked
    /\ current(Self) # next(Self)

\* C2: a write through current_mut() leaves next() unchanged, a write through
\* next_mut() leaves current() unchanged, and neither changes index.
C2_NonAliasing ==
    /\ (last = "current_mut" /\ pre.index \in ValidIndex)
         => /\ ~panicked
            /\ next(Self) = next(pre)
            /\ index = pre.index
    /\ (last = "next_mut" /\ pre.index \in ValidIndex)
         => /\ ~panicked
            /\ current(Self) = current(pre)
            /\ index = pre.index

\* a write through next_mut() changed the next slot
C2_Witness ==
    /\ last = "next_mut" /\ ~panicked
    /\ next(Self) # next(pre)
    /\ next(Self) = args[1]

\* C3: two swap() calls in a row restore exactly the (slots, index) the first
\* one started from; from an index in {0,1} the second call never fails.
C3_DoubleSwapIdentity ==
    [][(last = "swap" /\ ~panicked /\ last' = "swap")
       => /\ pre.index \in ValidIndex => ~panicked'
          /\ ~panicked' => Self' = pre]_vars

\* two swaps in a row have returned
C3_Witness ==
    /\ last = "swap" /\ last2 = "swap" /\ ~panicked
    /\ buffer[1] # buffer[2]

\* C4: under valid use (valid construction, set_index only with 0 or 1) the
\* selector is 0 or 1 in every reachable state.
C4_IndexInRange == index \in {0, 1}

\* the selector has been toggled to 1 by a swap that followed an apply
C4_Witness ==
    /\ last = "swap" /\ last2 = "apply" /\ ~panicked
    /\ index = 1

\* C5: swap() on a buffer with index in {0,1} sets index to 1 - index and
\* leaves both slots as they were, so current() is the old next() and next()
\* the old current().
C5_SwapTogglesIndexOnly ==
    (last = "swap" /\ pre.index \in ValidIndex)
      => /\ ~panicked
         /\ index = 1 - pre.index
         /\ buffer = pre.buffer
         /\ current(Self) = next(pre)
         /\ next(Self) = current(pre)

\* a swap has acted on a buffer whose two copies differ
C5_Witness ==
    /\ last = "swap" /\ ~panicked
    /\ current(pre) # next(pre)
    /\ index = 0

\* C6: split() and split_mut() return (slot 0, slot 1) whatever the index;
\* split_ordered() returns (current(), next()), which is the split pair for
\* index 0 and the exchanged split pair for index 1.
C6_SplitViews ==
    /\ last \in {"split", "split_mut"}
         => /\ ~panicked
            /\ ret = <<At(pre.buffer, 0), At(pre.buffer, 1)>>
            /\ views = <<0, 1>>
    /\ (last = "split_ordered" /\ pre.index \in ValidIndex)
         => /\ ~panicked
            /\ ret = <<current(pre), next(pre)>>
            /\ views = <<current_pos(pre.index), next_pos(pre.index)>>
            /\ pre.index = 0 => ret = <<At(pre.buffer, 0), At(pre.buffer, 1)>>
            /\ pre.index = 1 => ret = <<At(pre.buffer, 1), At(pre.buffer, 0)>>

\* split_ordered has been called with index 1 on a buffer whose copies differ
C6_Witness ==
    /\ last = "split_ordered" /\ ~panicked
    /\ pre.index = 1
    /\ ret[1] # ret[2]

\* C7: new(v), From::from(v), into_double_buf() on v and default() (v the
\* default of T) all give a buffer with both slots equal to v, so
\* current() = next() = v, and index 0.
C7_SeededConstruction ==
    /\ last \in {"new", "from", "into_double_buf"}
         => /\ buffer = <<args[1], args[1]>>
            /\ current(Self) = args[1]
            /\ next(Self) = args[1]
            /\ index = 0
    /\ last = "default"
         => /\ buffer = <<T_default, T_default>>
            /\ current(Self) = T_default
            /\ next(Self) = T_default
            /\ index = 0

\* a buffer has been made by into_double_buf from a value other than the default
C7_Witness ==
    /\ last = "into_double_buf"
    /\ args[1] # T_default
    /\ args[1][1] # args[1][2]

\* C8: from_buffer([a, b], i) with i in {0,1} has current() = slot i and
\* next() = slot 1 - i; with i = 1, current() = b and next() = a.
C8_FromBuffer ==
    (last = "from_buffer" /\ args[3] \in ValidIndex)
      => /\ buffer = <<args[1], args[2]>>
         /\ index = args[3]
         /\ current(Self) = (IF args[3] = 0 THEN args[1] ELSE args[2])
         /\ next(Self) = (IF args[3] = 0 THEN args[2] ELSE args[1])

\* a buffer has been made by from_buffer([a, b], 1) with a # b
C8_Witness ==
    /\ last = "from_buffer"
    /\ args[3] = 1
    /\ args[1] # args[2]

\* C9 as stated: swap() is the only public operation that changes index.
C9_SwapSoleMutator ==
    (last \notin Constructors /\ last # "swap") => index = pre.index

\* C9 amended: swap() and set_index() are the only public operations that
\* change index; buffer, buffer_mut, index, current, current_mut, next,
\* next_mut, split, split_mut, split_ordered and apply leave it unchanged.
C9_OnlySwapAndSetIndexMutate ==
    (last \notin Constructors /\ last \notin {"swap", "set_index"})
      => index = pre.index

\* an apply has changed a slot and left index at 1
C9_Witness ==
    /\ last = "apply" /\ ~panicked
    /\ buffer # pre.buffer
    /\ index = 1 /\ pre.index = 1

\* C10 as stated: set_index(v) validates nothing and returns; after
\* set_index(v) with v outside {0,1} the next call of current(), current_mut(),
\* next() or next_mut() returns no slot value and ends in an out-of-bounds
\* panic.
C10_OutOfBoundsOnNextRead ==
    /\ last = "set_index" => (~panicked /\ index = args[1] /\ buffer = pre.buffer)
    /\ (/\ last2 = "set_index" /\ pre.index \notin ValidIndex
        /\ last \in {"current", "current_mut", "next", "next_mut"})
         => (panic = OutOfBounds /\ ret = <<>>)

\* C10 amended: set_index(v) validates nothing and returns; with the selector
\* outside {0,1} (right after set_index(v) with such a v in particular) no
\* read returns a slot value and the buffer is left as it was: current() and
\* current_mut() end in an out-of-bounds panic; next() and next_mut() end in
\* a panic that is either the overflow of 1 - index (where overflow is
\* checked) or out of bounds (where the subtraction wraps).
C10_InvalidIndexPanics ==
    /\ last = "set_index" => (~panicked /\ index = args[1] /\ buffer = pre.buffer)
    /\ (last \in {"current", "current_mut"} /\ pre.index \notin ValidIndex)
         => (panic = OutOfBounds /\ ret = <<>> /\ views = <<>> /\ Self = pre)
    /\ (last \in {"next", "next_mut"} /\ pre.index \notin ValidIndex)
         => (panic \in {OutOfBounds, SubOverflow} /\ ret = <<>> /\ views = <<>> /\ Self = pre)

\* right after set_index(2), next() has panicked on the overflow of 1 - 2
C10_Witness ==
    /\ last = "next" /\ last2 = "set_index"
    /\ panic = SubOverflow
    /\ index = 2 /\ pre.index = 2

\* C11: under valid use no call fails: every call returns without a panic,
\* every position it hands out is inside the array, and neither 1 - index
\* (u8, in swap) nor 1 - index as usize (in next, next_mut) overflows.
C11_NoFailureUnderValidUse ==
    /\ panic = NoPanic
    /\ \A i \in 1 .. Len(views) : InBounds(views[i])
    /\ ~swap_overflows(pre.index)
    /\ ~next_overflows(pre.index)
    /\ InBounds(current_pos(index)) /\ InBounds(next_pos(index))

\* next_mut() has returned slot 0 on a buffer whose index is 1 (1 - 1 = 0)
C11_Witness ==
    /\ last = "next_mut" /\ ~panicked
    /\ pre.index = 1
    /\ views = <<0>>

\* C12: with index in {0,1} the current position differs from the next
\* position, and the two references split_mut(), split_ordered() and apply()
\* hand out together are to the two different positions 0 and 1.
C12_DistinctSlots ==
    /\ index \in ValidIndex => current_pos(index) # next_pos(index)
    /\ (last \in {"split_mut", "split_ordered", "apply"} /\ ~panicked)
         => /\ Len(views) = 2
            /\ views[1] # views[2]
            /\ {views[1], views[2]} = {0, 1}

\* split_ordered() has handed out (slot 1, slot 0) and the caller wrote slot 0
C12_Witness ==
    /\ last = "split_ordered" /\ ~panicked
    /\ views = <<1, 0>>
    /\ At(buffer, 0) # At(pre.buffer, 0)

\* C16: split_ordered() and apply() return for every index value: they read
\* slot 0 and write slot 1 when index is 0, and read slot 1 and write slot 0
\* for every other index, which is (current(), next()) exactly when index is
\* in {0,1}.
C16_SplitOrderedTotal ==
    (last \in {"split_ordered", "apply"})
      => /\ ~panicked
         /\ views = (IF pre.index = 0 THEN <<0, 1>> ELSE <<1, 0>>)
         /\ (views = <<current_pos(pre.index), next_pos(pre.index)>>)
              <=> (pre.index \in ValidIndex)
         /\ \A i \in 0 .. 1 : i # views[2] => At(buffer, i) = At(pre.buffer, i)

\* apply() has run its closure and changed slot 0 on a buffer whose index is 2
C16_Witness ==
    /\ last = "apply" /\ ~panicked
    /\ pre.index = 2
    /\ views = <<1, 0>>
    /\ At(buffer, 0) # At(pre.buffer, 0)

\* C13: apply(f) hands f the current slot to read and the next slot to write
\* and returns f's result; after every statement of f, and when apply
\* returns, the current slot holds its pre-call value and index is unchanged,
\* so every read f makes of current sees the pre-call value.
C13_ApplyKeepsCurrent ==
    (last = "apply" /\ pre.index \in ValidIndex)
      => /\ ~panicked
         /\ views = <<current_pos(pre.index), next_pos(pre.index)>>
         /\ ret = <<FRes(args[1], current(pre), next(pre))>>
         /\ Len(trace) = Len(Stmts(args[1]))
         /\ \A n \in 1 .. Len(trace) :
              /\ trace[n].read = current(pre)
              /\ At(trace[n].buf, current_pos(pre.index)) = current(pre)
         /\ current(Self) = current(pre)
         /\ index = pre.index

\* apply() has run the two statements of the exchange closure with index 1,
\* and each of them changed the next slot
C13_Witness ==
    /\ last = "apply" /\ ~panicked
    /\ args[1][1] = "exchange"
    /\ pre.index = 1
    /\ Len(trace) = 2
    /\ trace[1].buf # pre.buffer
    /\ trace[2].buf # trace[1].buf

\* closures that overwrite all of next with a function g of current
FullOverwrite == {"exchange", "copy", "const"}

\* g(v) for such a closure: what it leaves in next when current is v
G(g, v) == FWrite(g, v, v)

\* g applied n times to v
RECURSIVE Iter(_, _, _)
Iter(g, n, v) == IF n = 0 THEN v ELSE G(g, Iter(g, n - 1, v))

\* every cycle so far used the closure g
SameClosure(g) == \A k \in 2 .. Len(hist) : hist[k].f = g

\* C14: from new(v), after n >= 1 cycles of apply(f); swap() with the same
\* closure f that overwrites all of next with g(current), current() is g^n(v)
\* and next() is g^(n-1)(v); with the exchange closure and v = (10, 20) the
\* pair (current, next) is ((20,10),(10,20)) for odd n, ((10,20),(20,10)) for even n.
C14_CycleIterates ==
    (last = "swap" /\ Cycles >= 1)
      => \A g \in CycleF :
           (g[1] \in FullOverwrite /\ SameClosure(g))
             => /\ current(Self) = Iter(g, Cycles, hist[1].cur)
                /\ next(Self) = Iter(g, Cycles - 1, hist[1].cur)
                /\ (g[1] = "exchange" /\ hist[1].cur = <<10, 20>>)
                     => /\ Cycles % 2 = 1
                             => (current(Self) = <<20, 10>> /\ next(Self) = <<10, 20>>)
                        /\ Cycles % 2 = 0
                             => (current(Self) = <<10, 20>> /\ next(Self) = <<20, 10>>)

\* two exchange cycles from new((10, 20)) have completed
C14_Witness ==
    /\ last = "swap" /\ ~panicked
    /\ Cycles = 2
    /\ SameClosure(<<"exchange", T_default>>)
    /\ hist[1].cur = <<10, 20>>
    /\ current(Self) = <<10, 20>>
    /\ next(Self) = <<20, 10>>

\* the fields of next a closure assigns
Assigned(f) ==
    IF f[1] \in {"copy", "const"} THEN {1, 2}
    ELSE {Stmts(f)[n].dst : n \in 1 .. Len(Stmts(f))}

\* the calls that hand out no mutable view
NoView == {"buffer", "index", "set_index", "current", "next", "swap", "split"}

\* the array after the caller wrote v through the reference to position pos
\* of the array b and nothing else happened to b
Written(b, pos, v) == [i \in 1 .. 2 |-> IF i = pos + 1 THEN v ELSE b[i]]

\* C17: after construction no call of the container copies one slot to the
\* other, and a slot changes only by the caller's write through a mutable
\* view.  Calls that hand out no mutable view (buffer, index, set_index,
\* current, next, swap, split) and calls that panic leave both slots as they
\* were; after current_mut, next_mut, buffer_mut, split_mut and
\* split_ordered every slot holds the value the caller wrote through the
\* view of it, or else its old value; apply leaves the slot behind its
\* read-only view alone and changes in the other slot only the fields its
\* closure assigns.  So in a run of apply + swap cycles from new(v), when an
\* apply starts after a swap, next() is the value of the generation before
\* the present one (the value current() had until that swap, not a copy of
\* the present current()), and after the apply and the following swap every
\* field of current() that the closure did not assign still has the value
\* current() had two swaps earlier.
C17_NoCopyBetweenSlots ==
    /\ last \in NoView => buffer = pre.buffer
    /\ panicked => buffer = pre.buffer
    /\ (last \in {"current_mut", "next_mut"} /\ ~panicked)
         => buffer = Written(pre.buffer, views[1], args[1])
    /\ last = "buffer_mut" => buffer = Written(pre.buffer, args[1], args[2])
    /\ last = "split_mut"
         => buffer = Written(Written(pre.buffer, 0, args[1]), 1, args[2])
    /\ last = "split_ordered"
         => buffer = Written(pre.buffer, views[2], args[1])
    /\ last = "apply"
         => /\ At(buffer, views[1]) = At(pre.buffer, views[1])
            /\ \A c \in 1 .. 2 :
                 c \notin Assigned(args[1])
                   => At(buffer, views[2])[c] = At(pre.buffer, views[2])[c]
            /\ At(buffer, views[2])
                 = FWrite(args[1], At(pre.buffer, views[1]), At(pre.buffer, views[2]))
    /\ (last = "swap" /\ Cycles >= 1) => next(Self) = hist[Cycles].cur
    /\ (last = "swap" /\ Cycles >= 2)
         => \A c \in 1 .. 2 :
              c \notin Assigned(hist[Cycles + 1].f)
                => current(Self)[c] = hist[Cycles - 1].cur[c]

\* after a cycle whose closure assigned only field 0, field 1 of current()
\* has the value of two swaps earlier, which differs from the previous current()
C17_Witness ==
    /\ last = "swap" /\ ~panicked
    /\ Cycles >= 2
    /\ hist[Cycles + 1].f[1] = "first"
    /\ current(Self)[2] = hist[Cycles - 1].cur[2]
    /\ current(Self)[2] # hist[Cycles].cur[2]

\* one rotation of the color triple, as circular_dependent_system computes it
Rot(v) == <<v[2], v[3], v[1]>>

\* k rotations
RECURSIVE RotN(_, _)
RotN(k, v) == IF k = 0 THEN v ELSE Rot(RotN(k - 1, v))

\* C15: in the example app, whenever display_system runs no update run is
\* in progress, current() is the initial color triple rotated k times (k the
\* number of completed update runs), and every color display_system has read
\* in this run is the matching field of that triple; the three colors on
\* display after a run are that triple, never a mix of two generations.
C15_DisplaySeesWholeGenerations ==
    host.phase = "display"
      => /\ host.upc = 0
         /\ ~panicked
         /\ current(Self) = RotN(Cycles, MyColors0)
         /\ \A i \in 1 .. host.dpc : host.shown[i] = RotN(Cycles, MyColors0)[i]
         /\ host.dpc = 3 => host.shown = RotN(Cycles, MyColors0)

\* display_system has finished a run after two update runs
C15_Witness ==
    /\ host.phase = "display" /\ host.dpc = 3
    /\ Cycles = 2
    /\ host.shown = <<"GREEN", "RED", "BLUE">>

====
